---- MODULE Spec2Model ----
(***************************************************************************)
(* Model of bulb.py: a command dispatcher (interactive loop and            *)
(* process_command) over a tinytuya BulbDevice, and the HSV helpers        *)
(* (parse_colour_hex, format_hsv_to_hex, get_current_hsv, HSV -> RGB).     *)
(*                                                                         *)
(* The device is the environment: what device.status() answers and which   *)
(* device call raises are chosen nondeterministically for every command.   *)
(* Text is modelled as sequences of one-character strings where the code   *)
(* looks inside it (the DP 24 hex string), and as atomic strings where it  *)
(* only compares it (command and preset names).                            *)
(***************************************************************************)
EXTENDS Integers, Sequences, FiniteSets, TLC

VARIABLES
    session,    \* "interactive" (no argv) or "cli" (len(sys.argv) > 1)
    pc,         \* "prompt" | "dispatch" | "exited" | "crashed" | "hex"
    cmd,        \* the command word being handled (already lower-cased)
    arg,        \* the argument typed at the sub-prompt or given in argv[2:]
    status1,    \* what device.status() answered inside get_current_hsv
    status2,    \* what device.status() answered for the DP 21 mode check
    hsv_read,   \* the value get_current_hsv returned
    hsv_data,   \* the local hsv_data the RGB triple is computed from
    calls,      \* the device calls the current command has issued, in order
    out,        \* the kind of line the command printed
    exc,        \* the exception raised inside the command ("none" if none)
    hex_in,     \* harness for the hex helpers: the input string
    hex_hsv,    \*   parse_colour_hex(hex_in)
    hex_out,    \*   format_hsv_to_hex of that
    hex_pc      \*   "input" | "parsed" | "formatted" | "rejected" | "off"

vars == <<session, pc, cmd, arg, status1, status2, hsv_read, hsv_data, calls,
          out, exc, hex_in, hex_hsv, hex_out, hex_pc>>

progVars == <<session, pc, cmd, arg, status1, status2, hsv_read, hsv_data,
              calls, out, exc>>

hexVars == <<hex_in, hex_hsv, hex_out, hex_pc>>

-----------------------------------------------------------------------------
(* Program constants *)

TEMP_MIN == 0
TEMP_MAX == 1000
BRIGHT_MIN == 10
BRIGHT_MAX == 1000
HUE_MIN == 0
HUE_MAX == 360
SAT_MIN == 0
SAT_MAX == 1000
DEFAULT_FULL == 1000
DEFAULT_HUE == 0
HEX_LEN == 12
SV_SCALE == 1000
RGB_SCALE == 255

\* PRESET_HUES, as a function from preset name to hue
PRESET_HUES ==
    [n \in {"red", "orange", "yellow", "green", "cyan", "blue", "purple", "pink"} |->
        CASE n = "red" -> 0
          [] n = "orange" -> 30
          [] n = "yellow" -> 60
          [] n = "green" -> 120
          [] n = "cyan" -> 180
          [] n = "blue" -> 240
          [] n = "purple" -> 300
          [] n = "pink" -> 350]

-----------------------------------------------------------------------------
(* Hex text <-> integers *)

LowerHexDigits == <<"0", "1", "2", "3", "4", "5", "6", "7", "8", "9",
                    "a", "b", "c", "d", "e", "f">>

UpperHexDigits == <<"0", "1", "2", "3", "4", "5", "6", "7", "8", "9",
                    "A", "B", "C", "D", "E", "F">>

IsHexDigit(c) ==
    \E i \in 1..16 : LowerHexDigits[i] = c \/ UpperHexDigits[i] = c

\* the value of one hexadecimal digit, in either letter case
HexDigitValue(c) ==
    (CHOOSE i \in 1..16 : LowerHexDigits[i] = c \/ UpperHexDigits[i] = c) - 1

\* str.lower() on one character
LowerChar(c) ==
    IF \E i \in 1..16 : UpperHexDigits[i] = c
    THEN LowerHexDigits[CHOOSE i \in 1..16 : UpperHexDigits[i] = c]
    ELSE c

ToLower(str) == [i \in DOMAIN str |-> LowerChar(str[i])]

\* int(s, 16) for a string of hexadecimal digits: [ok, n]; ok = FALSE is
\* the ValueError int() raises on a character that is no digit
RECURSIVE HexValue(_)
HexValue(str) ==
    IF Len(str) = 0 THEN 0
    ELSE 16 * HexValue(SubSeq(str, 1, Len(str) - 1)) + HexDigitValue(str[Len(str)])

IntBase16(str) ==
    IF Len(str) > 0 /\ \A i \in DOMAIN str : IsHexDigit(str[i])
    THEN [ok |-> TRUE, n |-> HexValue(str)]
    ELSE [ok |-> FALSE, n |-> 0]

\* the hexadecimal digits of n >= 0, lower case, no padding ("0" for 0)
RECURSIVE HexDigitsOf(_)
HexDigitsOf(n) ==
    IF n < 16 THEN <<LowerHexDigits[n + 1]>>
    ELSE HexDigitsOf(n \div 16) \o <<LowerHexDigits[(n % 16) + 1]>>

RECURSIVE ZeroPad(_, _)
ZeroPad(str, width) ==
    IF Len(str) >= width THEN str ELSE ZeroPad(<<"0">> \o str, width)

\* f"{n:04x}": lower-case hex, zero-padded to a minimum width of 4, the sign
\* of a negative number counting towards the width
Format04x(n) ==
    IF n >= 0 THEN ZeroPad(HexDigitsOf(n), 4)
    ELSE <<"-">> \o ZeroPad(HexDigitsOf(-n), 3)

NoHsv == [kind |-> "none", h |-> 0, s |-> 0, v |-> 0]

Hsv(h, s, v) == [kind |-> "dict", h |-> h, s |-> s, v |-> v]

\* parse_colour_hex: [ok, hsv]; ok = FALSE is the ValueError it raises
parse_colour_hex(hex_str) ==
    IF Len(hex_str) # HEX_LEN THEN [ok |-> FALSE, hsv |-> NoHsv]
    ELSE LET hue == IntBase16(SubSeq(hex_str, 1, 4))
             sat == IntBase16(SubSeq(hex_str, 5, 8))
             val == IntBase16(SubSeq(hex_str, 9, 12))
         IN  IF hue.ok /\ sat.ok /\ val.ok
             THEN [ok |-> TRUE, hsv |-> Hsv(hue.n, sat.n, val.n)]
             ELSE [ok |-> FALSE, hsv |-> NoHsv]

format_hsv_to_hex_swapped(h, s, v) == Format04x(h) \o Format04x(v) \o Format04x(s)

format_hsv_to_hex(h, s, v) == Format04x(h) \o Format04x(s) \o Format04x(v)

-----------------------------------------------------------------------------
(* HSV -> RGB *)

\* int(x) of the quotient a / b, b > 0: truncation towards zero
TruncDiv(a, b) == IF a >= 0 THEN a \div b ELSE -((-a) \div b)

\* colorsys.hsv_to_rgb(h / 360.0, s / 1000.0, v / 1000.0) followed by
\* int(c * 255) on each channel, in exact arithmetic on the integer h, s, v:
\*   h * 6 = h / 60, i = int(h * 6), f = (h - 60 i) / 60,
\*   p = v (1 - s), q = v (1 - s f), t = v (1 - s (1 - f)),
\* so that with f60 = 60 f
\*   255 p = 255 v (1000 - s) / 1000^2         = 51 v (1000 - s) / 200000
\*   255 q = 255 v (60000 - s f60) / 60000000  = 17 v (60000 - s f60) / 4000000
\* (the fractions are reduced to keep the products within 32 bits). The
\* code computes in binary floating point; on every h, s, v the commands
\* below reach, and across the ranges h in 0..360, s and v in 0..1000, the
\* truncated channels of the two computations are the same.
colorsys_hsv_to_rgb(h, s, v) ==
    LET i == TruncDiv(h, 60)
        f60 == h - 60 * i
        cv == TruncDiv(RGB_SCALE * v, SV_SCALE)
        cp == TruncDiv(51 * v * (SV_SCALE - s), 200000)
        cq == TruncDiv(17 * v * (60 * SV_SCALE - s * f60), 4000000)
        ct == TruncDiv(17 * v * (60 * SV_SCALE - s * (60 - f60)), 4000000)
        k == i % 6
    IN  IF s = 0 THEN <<cv, cv, cv>>
        ELSE CASE k = 0 -> <<cv, ct, cp>>
               [] k = 1 -> <<cq, cv, cp>>
               [] k = 2 -> <<cp, cv, ct>>
               [] k = 3 -> <<cp, cq, cv>>
               [] k = 4 -> <<ct, cp, cv>>
               [] k = 5 -> <<cv, cp, cq>>

\* the triple in the order b, g, r
rgb_of_reversed(data) ==
    LET c == colorsys_hsv_to_rgb(data.h, data.s, data.v)
    IN  <<c[3], c[2], c[1]>>

\* the r, g, b the commands send for the dictionary hsv_data
rgb_of(data) == colorsys_hsv_to_rgb(data.h, data.s, data.v)

-----------------------------------------------------------------------------
(* What the user types and what the device answers *)

\* integers the user may give to each command: the ends of its range, the
\* integers next to them, and values inside and far outside
TempArgs == {-1, 0, 500, 1000, 1001}

BrightArgs == {9, 10, 500, 1000, 1001, 5000}

HueArgs == {-60, -1, 0, 240, 360, 361, 720}

SatArgs == {-500, -1, 0, 300, 1000, 1001, 2000}

\* non-numeric text the user may give as an argument
TextArgs == {"red", "blue", "pink", "magenta", "RED", " red ", "abc"}

MissingArg == [kind |-> "missing", n |-> 0, t |-> ""]

\* an argument: text that int() parses to n (n in ints), text t that it
\* does not parse, or nothing (an empty line at the prompt, no argv[2] on
\* the command line)
Args(ints) ==
    {[kind |-> "int", n |-> n, t |-> ""] : n \in ints}
        \cup {[kind |-> "text", n |-> 0, t |-> t] : t \in TextArgs}
        \cup {MissingArg}

\* str.lower() and str.strip() on the argument texts
str_lower(t) == IF t = "RED" THEN "red" ELSE t

str_strip(t) == IF t = " red " THEN "red" ELSE t

\* the words the dispatchers compare the command against, and one other word
Commands == {"on", "off", "temp", "bright", "hue", "sat", "colour", "status",
             "help", "exit", "bogus"}

\* the "colour_data_v2" datapoint: absent, text that is no JSON, the JSON
\* null, a JSON number, or a JSON object with integer h, s, v in the
\* device's ranges
JsonFields ==
    {[kind |-> k, h |-> 0, s |-> 0, v |-> 0] :
        k \in {"absent", "invalid", "null", "scalar"}}
        \cup {[kind |-> "object", h |-> 120, s |-> 500, v |-> 800],
              [kind |-> "object", h |-> 300, s |-> 0, v |-> 600]}

\* the "24" datapoint: absent, or a string
HexFields ==
    {[present |-> FALSE, text |-> <<>>],
     \* h = 240, s = 1000, v = 1000
     [present |-> TRUE,
      text |-> <<"0", "0", "f", "0", "0", "3", "e", "8", "0", "3", "e", "8">>],
     \* h = 30, s = 500, v = 100, upper-case digits
     [present |-> TRUE,
      text |-> <<"0", "0", "1", "E", "0", "1", "F", "4", "0", "0", "6", "4">>],
     \* 11 characters
     [present |-> TRUE,
      text |-> <<"0", "0", "f", "0", "0", "3", "e", "8", "0", "3", "e">>],
     \* the 14-character rrggbb0hhhssvv encoding of older firmware
     [present |-> TRUE,
      text |-> <<"f", "f", "0", "0", "0", "0", "0", "0", "0", "0", "f", "f",
                 "f", "f">>],
     \* 12 characters, not all of them hexadecimal digits
     [present |-> TRUE,
      text |-> <<"0", "0", "f", "0", "z", "z", "z", "z", "0", "3", "e", "8">>]}

\* what device.status() answers to get_current_hsv: the fields it reads
ColourStatuses ==
    {[dps |-> FALSE, cdv2 |-> [kind |-> "absent", h |-> 0, s |-> 0, v |-> 0],
      dp24 |-> [present |-> FALSE, text |-> <<>>]]}
        \cup {[dps |-> TRUE, cdv2 |-> j, dp24 |-> x] :
                j \in JsonFields, x \in HexFields}

\* what device.status() answers to the mode check: the fields it reads
ModeStatuses ==
    {[dps |-> FALSE, dp21 |-> "absent"]}
        \cup {[dps |-> TRUE, dp21 |-> m] : m \in {"absent", "white", "colour"}}

NoColourStatus == [dps |-> FALSE, cdv2 |-> [kind |-> "absent", h |-> 0, s |-> 0, v |-> 0],
                   dp24 |-> [present |-> FALSE, text |-> <<>>]]

NoModeStatus == [dps |-> FALSE, dp21 |-> "absent"]

\* the most device calls one command issues: status, status, set_value,
\* set_colour
MaxDeviceCalls == 4

\* which device call of the command raises: the k-th one issued, 0 for none
FailPoints == 0..MaxDeviceCalls

-----------------------------------------------------------------------------
(* Device calls, as the command issues them *)

Call(fn, k, s, x, y, z) == [fn |-> fn, k |-> k, s |-> s, x |-> x, y |-> y, z |-> z]

StatusCall == Call("status", "", "", 0, 0, 0)
TurnOnCall == Call("turn_on", "", "", 0, 0, 0)
TurnOffCall == Call("turn_off", "", "", 0, 0, 0)
SetModeCall(mode) == Call("set_value", "21", mode, 0, 0, 0)
SetTempCall(temp) == Call("set_value", "23", "", temp, 0, 0)
SetBrightnessCall(val) == Call("set_brightness", "", "", val, 0, 0)
SetColourCall(rgb) == Call("set_colour", "", "", rgb[1], rgb[2], rgb[3])

-----------------------------------------------------------------------------
(* The colour state helper *)

\* json.loads of the colour_data_v2 text: [ok, val]; ok = FALSE is the
\* exception it raises. null loads as None, a number as a number.
json_loads(field) ==
    CASE field.kind = "object" -> [ok |-> TRUE, val |-> Hsv(field.h, field.s, field.v)]
      [] field.kind = "null" -> [ok |-> TRUE, val |-> NoHsv]
      [] field.kind = "scalar" ->
            [ok |-> TRUE, val |-> [kind |-> "scalar", h |-> 0, s |-> 0, v |-> 0]]
      [] OTHER -> [ok |-> FALSE, val |-> NoHsv]

\* get_current_hsv, on the status the device answered: the JSON field when
\* it loads (whatever it loads as), else DP 24 when it parses, else None
get_current_hsv(status) ==
    LET fromHex ==
            IF status.dp24.present /\ parse_colour_hex(status.dp24.text).ok
            THEN parse_colour_hex(status.dp24.text).hsv
            ELSE NoHsv
    IN  IF ~status.dps THEN NoHsv
        ELSE IF status.cdv2.kind # "absent" /\ json_loads(status.cdv2).ok
             THEN json_loads(status.cdv2).val
             ELSE fromHex

\* the HSV a hue update works from: the reading with h replaced, or, with no
\* reading, the new hue at full saturation and value
HueDefaultsAlways(reading, new_hue) == Hsv(new_hue, DEFAULT_FULL, DEFAULT_FULL)

OverlayHue(reading, new_hue) ==
    IF reading.kind = "none" THEN Hsv(new_hue, DEFAULT_FULL, DEFAULT_FULL)
    ELSE [reading EXCEPT !.h = new_hue]

\* the HSV a saturation update works from: the reading with s replaced, or,
\* with no reading, hue 0 and full value
OverlaySatHueDefault(reading, new_sat) ==
    IF reading.kind = "none" THEN Hsv(new_sat, DEFAULT_FULL, DEFAULT_FULL)
    ELSE [reading EXCEPT !.s = new_sat]

OverlaySat(reading, new_sat) ==
    IF reading.kind = "none" THEN Hsv(DEFAULT_HUE, new_sat, DEFAULT_FULL)
    ELSE [reading EXCEPT !.s = new_sat]

Overlay(channel, reading, value) ==
    IF channel = "h" THEN OverlayHue(reading, value) ELSE OverlaySat(reading, value)

\* the device calls that put the bulb in colour mode, given the mode read
ModeWriteNever(dp21) == <<>>

EnsureColourMode(dp21) ==
    IF dp21 # "colour" THEN <<SetModeCall("colour")>> ELSE <<>>

Outcome(st1, st2, rd, data, cs, e) ==
    [status1 |-> st1, status2 |-> st2, hsv_read |-> rd, hsv_data |-> data,
     calls |-> cs, exc |-> e]

\* The body the hue, saturation and preset commands share, on both paths:
\* read the HSV, overlay one channel, check the mode and switch it if need
\* be, convert, send. The device calls are issued in this order, and the
\* fail-th of them raises.
ColourUpdate(channel, value, st1, st2, fail) ==
    LET rd == get_current_hsv(st1)
        data == Overlay(channel, rd, value)
        c1 == <<StatusCall>>
        c2 == c1 \o <<StatusCall>>
        c3 == c2 \o EnsureColourMode(st2.dp21)
        c4 == c3 \o <<SetColourCall(rgb_of(data))>>
    IN  IF fail = 1
        THEN Outcome(NoColourStatus, NoModeStatus, NoHsv, NoHsv, c1, "DeviceError")
        ELSE IF rd.kind = "scalar"
        THEN Outcome(st1, NoModeStatus, rd, rd, c1, "TypeError")
        ELSE IF fail = 2
        THEN Outcome(st1, NoModeStatus, rd, data, c2, "DeviceError")
        ELSE IF ~st2.dps
        THEN Outcome(st1, st2, rd, data, c2, "KeyError")
        ELSE IF Len(c3) = 3 /\ fail = 3
        THEN Outcome(st1, st2, rd, data, c3, "DeviceError")
        ELSE IF fail = Len(c4)
        THEN Outcome(st1, st2, rd, data, c4, "DeviceError")
        ELSE Outcome(st1, st2, rd, data, c4, "none")

\* a command that reads no status and computes no colour
Plain(cs, e) == Outcome(NoColourStatus, NoModeStatus, NoHsv, NoHsv, cs, e)

\* one device call and nothing else: it raises or it returns
OneCall(call, fail) == Plain(<<call>>, IF fail = 1 THEN "DeviceError" ELSE "none")

-----------------------------------------------------------------------------
(* The commands *)

Init ==
    /\ session \in {"interactive", "cli"}
    /\ pc = "prompt"
    /\ cmd = ""
    /\ arg = MissingArg
    /\ status1 = NoColourStatus
    /\ status2 = NoModeStatus
    /\ hsv_read = NoHsv
    /\ hsv_data = NoHsv
    /\ calls = <<>>
    /\ out = "none"
    /\ exc = "none"
    /\ hex_in = <<>>
    /\ hex_hsv = NoHsv
    /\ hex_out = <<>>
    /\ hex_pc = "off"

\* the state a command leaves: its argument, what it read and computed, the
\* calls it issued, what it printed, and where control goes
Leave(a, res, printed, next) ==
    /\ arg' = a
    /\ status1' = res.status1
    /\ status2' = res.status2
    /\ hsv_read' = res.hsv_read
    /\ hsv_data' = res.hsv_data
    /\ calls' = res.calls
    /\ exc' = res.exc
    /\ out' = printed
    /\ pc' = next
    /\ UNCHANGED <<session, cmd, hexVars>>

\* a command whose body is inside try/except: an exception is printed
Caught(a, res, next) ==
    Leave(a, res, IF res.exc = "none" THEN "ok" ELSE "error", next)

\* a command with no try/except around it: an exception propagates out of
\* the command, out of its caller, and ends the process with a traceback
Uncaught(a, res, next) ==
    IF res.exc = "none" THEN Leave(a, res, "ok", next)
    ELSE Leave(a, res, "traceback", "crashed")

\* the command word is read: input() at the prompt, sys.argv[1] on the
\* command line; the previous command's locals are gone
ReadCommand ==
    /\ pc = "prompt"
    /\ \E c \in Commands : cmd' = c
    /\ pc' = "dispatch"
    /\ arg' = MissingArg
    /\ status1' = NoColourStatus
    /\ status2' = NoModeStatus
    /\ hsv_read' = NoHsv
    /\ hsv_data' = NoHsv
    /\ calls' = <<>>
    /\ out' = "none"
    /\ exc' = "none"
    /\ UNCHANGED <<session, hexVars>>

Handling(sess, c) == session = sess /\ pc = "dispatch" /\ cmd = c

(* Interactive mode *)

turn_on ==
    /\ Handling("interactive", "on")
    /\ \E fail \in 0..1 : Caught(MissingArg, OneCall(TurnOnCall, fail), "prompt")

turn_off ==
    /\ Handling("interactive", "off")
    /\ \E fail \in 0..1 : Caught(MissingArg, OneCall(TurnOffCall, fail), "prompt")

TempInRange(temp) == TEMP_MIN <= temp /\ temp <= TEMP_MAX

\* the two writes of a white temperature, the fail-th call raising
WhiteTempWrites(temp, fail) ==
    IF fail = 1 THEN Plain(<<SetModeCall("white")>>, "DeviceError")
    ELSE Plain(<<SetModeCall("white"), SetTempCall(temp)>>,
               IF fail = 2 THEN "DeviceError" ELSE "none")

set_white_temp ==
    /\ Handling("interactive", "temp")
    /\ \E a \in Args(TempArgs), fail \in FailPoints :
        IF a.kind # "int" THEN Caught(a, Plain(<<>>, "ValueError"), "prompt")
        ELSE IF ~TempInRange(a.n) THEN Leave(a, Plain(<<>>, "none"), "out_of_range", "prompt")
        ELSE Caught(a, WhiteTempWrites(a.n, fail), "prompt")

BrightnessInRange(val) == ~(val < BRIGHT_MIN \/ val > BRIGHT_MAX)

set_brightness ==
    /\ Handling("interactive", "bright")
    /\ \E a \in Args(BrightArgs), fail \in FailPoints :
        IF a.kind # "int" THEN Caught(a, Plain(<<>>, "ValueError"), "prompt")
        ELSE IF ~BrightnessInRange(a.n)
        THEN Leave(a, Plain(<<>>, "none"), "out_of_range", "prompt")
        ELSE Caught(a, OneCall(SetBrightnessCall(a.n), fail), "prompt")

HueInRange(new_hue) == HUE_MIN <= new_hue /\ new_hue <= HUE_MAX

update_hue ==
    /\ Handling("interactive", "hue")
    /\ \E a \in Args(HueArgs), st1 \in ColourStatuses, st2 \in ModeStatuses, fail \in FailPoints :
        IF a.kind # "int" THEN Caught(a, Plain(<<>>, "ValueError"), "prompt")
        ELSE IF ~HueInRange(a.n) THEN Leave(a, Plain(<<>>, "none"), "out_of_range", "prompt")
        ELSE Caught(a, ColourUpdate("h", a.n, st1, st2, fail), "prompt")

SatInRange(new_sat) == SAT_MIN <= new_sat /\ new_sat <= SAT_MAX

update_saturation ==
    /\ Handling("interactive", "sat")
    /\ \E a \in Args(SatArgs), st1 \in ColourStatuses, st2 \in ModeStatuses, fail \in FailPoints :
        IF a.kind # "int" THEN Caught(a, Plain(<<>>, "ValueError"), "prompt")
        ELSE IF ~SatInRange(a.n) THEN Leave(a, Plain(<<>>, "none"), "out_of_range", "prompt")
        ELSE Caught(a, ColourUpdate("s", a.n, st1, st2, fail), "prompt")

\* the text of an argument as the user typed it
ArgText(a) == IF a.kind = "int" THEN "<digits>" ELSE a.t

PresetKnown(name) == name \in DOMAIN PRESET_HUES

\* what the preset command does with a name that is no preset: it prints
\* "Unknown preset." and returns
UnknownPresetAfterRead == Plain(<<StatusCall>>, "none")

UnknownPreset == Plain(<<>>, "none")

preset_colour ==
    /\ Handling("interactive", "colour")
    /\ \E a \in Args(HueArgs), st1 \in ColourStatuses, st2 \in ModeStatuses, fail \in FailPoints :
        LET choice == str_lower(str_strip(ArgText(a)))
        IN  IF ~PresetKnown(choice)
            THEN Leave(a, UnknownPreset, "unknown_preset", "prompt")
            ELSE Uncaught(a, ColourUpdate("h", PRESET_HUES[choice], st1, st2, fail), "prompt")

get_status ==
    /\ Handling("interactive", "status")
    /\ \E fail \in 0..1 : Caught(MissingArg, OneCall(StatusCall, fail), "prompt")

print_menu ==
    /\ Handling("interactive", "help")
    /\ Leave(MissingArg, Plain(<<>>, "none"), "menu", "prompt")

exit_loop ==
    /\ Handling("interactive", "exit")
    /\ Leave(MissingArg, Plain(<<>>, "none"), "exiting", "exited")

unknown_interactive ==
    /\ Handling("interactive", "bogus")
    /\ Leave(MissingArg, Plain(<<>>, "none"), "unknown_command", "prompt")

(* Command-line mode: process_command(cmd, args) *)

\* int(args[0]) on the command line: no args[0] is an IndexError, text that
\* is no number a ValueError
ArgError(a) == IF a.kind = "missing" THEN "IndexError" ELSE "ValueError"

process_command_on ==
    /\ Handling("cli", "on")
    /\ \E fail \in 0..1 : Uncaught(MissingArg, OneCall(TurnOnCall, fail), "exited")

process_command_off ==
    /\ Handling("cli", "off")
    /\ \E fail \in 0..1 : Uncaught(MissingArg, OneCall(TurnOffCall, fail), "exited")

process_command_temp ==
    /\ Handling("cli", "temp")
    /\ \E a \in Args(TempArgs), fail \in FailPoints :
        IF a.kind # "int" THEN Caught(a, Plain(<<>>, ArgError(a)), "exited")
        ELSE Caught(a, WhiteTempWrites(a.n, fail), "exited")

process_command_bright ==
    /\ Handling("cli", "bright")
    /\ \E a \in Args(BrightArgs), fail \in FailPoints :
        IF a.kind # "int" THEN Caught(a, Plain(<<>>, ArgError(a)), "exited")
        ELSE Caught(a, OneCall(SetBrightnessCall(a.n), fail), "exited")

process_command_hue ==
    /\ Handling("cli", "hue")
    /\ \E a \in Args(HueArgs), st1 \in ColourStatuses, st2 \in ModeStatuses, fail \in FailPoints :
        IF a.kind # "int" THEN Caught(a, Plain(<<>>, ArgError(a)), "exited")
        ELSE Caught(a, ColourUpdate("h", a.n, st1, st2, fail), "exited")

process_command_sat ==
    /\ Handling("cli", "sat")
    /\ \E a \in Args(SatArgs), st1 \in ColourStatuses, st2 \in ModeStatuses, fail \in FailPoints :
        IF a.kind # "int" THEN Caught(a, Plain(<<>>, ArgError(a)), "exited")
        ELSE Caught(a, ColourUpdate("s", a.n, st1, st2, fail), "exited")

process_command_colour ==
    /\ Handling("cli", "colour")
    /\ \E a \in Args(HueArgs), st1 \in ColourStatuses, st2 \in ModeStatuses, fail \in FailPoints :
        LET preset_name == str_lower(ArgText(a))
        IN  IF a.kind = "missing" THEN Caught(a, Plain(<<>>, "IndexError"), "exited")
            ELSE IF ~PresetKnown(preset_name)
            THEN Leave(a, UnknownPreset, "unknown_preset", "exited")
            ELSE Caught(a, ColourUpdate("h", PRESET_HUES[preset_name], st1, st2, fail),
                        "exited")

process_command_status ==
    /\ Handling("cli", "status")
    /\ \E fail \in 0..1 : Uncaught(MissingArg, OneCall(StatusCall, fail), "exited")

process_command_unknown ==
    /\ session = "cli"
    /\ pc = "dispatch"
    /\ cmd \in {"help", "exit", "bogus"}
    /\ Leave(MissingArg, Plain(<<>>, "none"), "unknown_command", "exited")

Next ==
    \/ ReadCommand
    \/ turn_on
    \/ turn_off
    \/ set_white_temp
    \/ set_brightness
    \/ update_hue
    \/ update_saturation
    \/ preset_colour
    \/ get_status
    \/ print_menu
    \/ exit_loop
    \/ unknown_interactive
    \/ process_command_on
    \/ process_command_off
    \/ process_command_temp
    \/ process_command_bright
    \/ process_command_hue
    \/ process_command_sat
    \/ process_command_colour
    \/ process_command_status
    \/ process_command_unknown

Spec == Init /\ [][Next]_vars

-----------------------------------------------------------------------------
(* The hex helpers on their own: parse a string, format the result *)

\* four-character groups a 12-character string is put together from
HexGroups ==
    {<<"0", "0", "0", "0">>, <<"0", "0", "f", "0">>, <<"0", "3", "e", "8">>,
     <<"0", "3", "E", "8">>, <<"f", "f", "f", "f">>, <<"F", "F", "F", "F">>,
     <<"a", "B", "c", "D">>, <<"0", "1", "6", "8">>, <<"0", "1", "z", "z">>}

\* the strings given to parse_colour_hex: every 12-character string of three
\* groups, and from each of them a string one character short
HexInputs ==
    LET full == {a \o b \o c : a \in HexGroups, b \in HexGroups, c \in HexGroups}
    IN  full \cup {SubSeq(x, 1, HEX_LEN - 1) : x \in {a \o a \o a : a \in HexGroups}}

InitHex ==
    /\ session = "cli"
    /\ pc = "exited"
    /\ cmd = ""
    /\ arg = MissingArg
    /\ status1 = NoColourStatus
    /\ status2 = NoModeStatus
    /\ hsv_read = NoHsv
    /\ hsv_data = NoHsv
    /\ calls = <<>>
    /\ out = "none"
    /\ exc = "none"
    /\ hex_in \in HexInputs
    /\ hex_hsv = NoHsv
    /\ hex_out = <<>>
    /\ hex_pc = "input"

ParseHex ==
    /\ hex_pc = "input"
    /\ hex_hsv' = parse_colour_hex(hex_in).hsv
    /\ hex_pc' = IF parse_colour_hex(hex_in).ok THEN "parsed" ELSE "rejected"
    /\ UNCHANGED <<hex_in, hex_out, progVars>>

FormatHex ==
    /\ hex_pc = "parsed"
    /\ hex_out' = format_hsv_to_hex(hex_hsv.h, hex_hsv.s, hex_hsv.v)
    /\ hex_pc' = "formatted"
    /\ UNCHANGED <<hex_in, hex_hsv, progVars>>

NextHex == ParseHex \/ FormatHex

SpecHex == InitHex /\ [][NextHex]_vars

-----------------------------------------------------------------------------
(* Properties *)

\* the command has run (the state is the one it left)
Handled == pc # "dispatch" /\ cmd # ""

IsSetColour(i) == calls[i].fn = "set_colour"

IntArg(n) == [kind |-> "int", n |-> n, t |-> ""]

\* the preset name the colour command looks up: strip().lower() at the
\* prompt, lower() on the command line
LookedUpName ==
    IF session = "interactive" THEN str_lower(str_strip(ArgText(arg)))
    ELSE str_lower(ArgText(arg))

\* C1: device.set_brightness is only ever called with a value in 10..1000,
\* on the interactive and on the command-line path
C1_BrightnessCallsInRange ==
    \A i \in DOMAIN calls :
        calls[i].fn = "set_brightness" =>
            BRIGHT_MIN <= calls[i].x /\ calls[i].x <= BRIGHT_MAX

\* C2: a white temperature outside 0..1000 is rejected with a message and
\* no device write is issued, on both paths
C2_TempOutOfRangeRejected ==
    (Handled /\ cmd = "temp" /\ arg.kind = "int" /\ ~TempInRange(arg.n)) =>
        (out = "out_of_range" /\ calls = <<>>)

\* C3: no command lets an exception propagate: whatever is raised inside a
\* command is reported as a message and control returns to the caller
C3_NoUnhandledException ==
    /\ pc # "crashed"
    /\ (Handled /\ exc # "none") => out = "error"

\* C4: with an HSV reading decoded from the status, a hue update (set-hue or
\* a preset) sends the RGB of the reading with only h replaced, and a
\* saturation update the RGB of the reading with only s replaced
C4_OtherChannelsPreserved ==
    \A i \in DOMAIN calls :
        (IsSetColour(i) /\ hsv_read.kind = "dict") =>
            LET want ==
                    CASE cmd = "hue" -> Hsv(arg.n, hsv_read.s, hsv_read.v)
                      [] cmd = "colour" ->
                            Hsv(PRESET_HUES[LookedUpName], hsv_read.s, hsv_read.v)
                      [] cmd = "sat" -> Hsv(hsv_read.h, arg.n, hsv_read.v)
            IN  /\ hsv_data = want
                /\ calls[i] = SetColourCall(colorsys_hsv_to_rgb(want.h, want.s, want.v))

C4_Witness ==
    /\ cmd = "colour"
    /\ arg.t = "blue"
    /\ hsv_read = Hsv(30, 500, 100)
    /\ out = "ok"
    /\ calls[Len(calls)] = SetColourCall(colorsys_hsv_to_rgb(240, 500, 100))

\* C5 as claimed: formatting the parse of a well-formed 12-hex-digit string,
\* in either letter case, gives the string back
C5_RoundTripEitherCase ==
    hex_pc = "formatted" => hex_out = hex_in

WellFormedHex(str) == Len(str) = HEX_LEN /\ \A i \in DOMAIN str : IsHexDigit(str[i])

\* C5 amended: every well-formed 12-hex-digit string is parsed, and
\* formatting the parse gives the string with its letters in lower case,
\* which is the string itself when it has no upper-case letter
C5_RoundTripLowerCase ==
    /\ (hex_pc = "rejected") => ~WellFormedHex(hex_in)
    /\ (hex_pc = "formatted") =>
            /\ WellFormedHex(hex_in)
            /\ hex_out = ToLower(hex_in)
            /\ (ToLower(hex_in) = hex_in => hex_out = hex_in)

C5_Witness ==
    /\ hex_pc = "formatted"
    /\ hex_in = <<"0", "0", "f", "0", "0", "3", "e", "8", "f", "f", "f", "f">>
    /\ hex_hsv = Hsv(240, 1000, 65535)
    /\ hex_out = hex_in

\* C6: a preset name that is not in the preset table is answered with the
\* unknown-preset message and no device call at all, on both paths
C6_UnknownPresetNoDeviceCall ==
    (Handled /\ cmd = "colour" /\ ~(session = "cli" /\ arg.kind = "missing")
        /\ LookedUpName \notin DOMAIN PRESET_HUES) =>
        (out = "unknown_preset" /\ calls = <<>> /\ exc = "none")

C6_Witness ==
    /\ session = "cli"
    /\ pc = "exited"
    /\ cmd = "colour"
    /\ arg.t = "magenta"
    /\ out = "unknown_preset"
    /\ calls = <<>>

\* C7: every set_colour call carries r, g, b in 0..255, whatever integer the
\* user gave
C7_RgbInByteRange ==
    \A i \in DOMAIN calls :
        IsSetColour(i) =>
            /\ calls[i].x \in 0..RGB_SCALE
            /\ calls[i].y \in 0..RGB_SCALE
            /\ calls[i].z \in 0..RGB_SCALE

\* the HSV synthesized when there is no reading
Synthesized ==
    IF cmd = "sat" THEN Hsv(DEFAULT_HUE, arg.n, DEFAULT_FULL)
    ELSE Hsv(arg.n, DEFAULT_FULL, DEFAULT_FULL)

\* C8: when get_current_hsv finds no usable reading, set-saturation(s) works
\* from {h:0, s:s, v:1000} and set-hue(h) from {h:h, s:1000, v:1000}; the
\* missing reading raises nothing, and unless a device call fails (it raises,
\* or the mode read carries no datapoints) the command succeeds and its last
\* call is set_colour with the RGB of that HSV
C8_NoReadingSynthesizes ==
    (Handled /\ cmd \in {"hue", "sat"} /\ hsv_read.kind = "none" /\ Len(calls) >= 2) =>
        /\ hsv_data = Synthesized
        /\ exc \in {"none", "DeviceError", "KeyError"}
        /\ exc = "KeyError" => ~status2.dps
        /\ (status2.dps /\ exc # "DeviceError") =>
                /\ out = "ok"
                /\ exc = "none"
                /\ calls[Len(calls)] =
                        SetColourCall(colorsys_hsv_to_rgb(Synthesized.h, Synthesized.s, Synthesized.v))

C8_Witness ==
    /\ cmd = "sat"
    /\ arg = IntArg(300)
    /\ status1.dps
    /\ status1.cdv2.kind = "invalid"
    /\ status1.dp24.present
    /\ hsv_read = NoHsv
    /\ hsv_data = Hsv(0, 300, 1000)
    /\ out = "ok"
    /\ calls[Len(calls)] = SetColourCall(<<255, 178, 178>>)

\* the scenario of C9: colour_data_v2 = {"h":120,"s":500,"v":800}, set-hue(240),
\* and the command got as far as set_colour
C9_Scenario ==
    /\ Handled
    /\ cmd = "hue"
    /\ arg = IntArg(240)
    /\ status1.dps
    /\ status1.cdv2 = [kind |-> "object", h |-> 120, s |-> 500, v |-> 800]
    /\ \E i \in DOMAIN calls : IsSetColour(i)

\* C9 as claimed: the scenario sends set_colour(64, 191, 191)
C9_SendsClaimedRgb ==
    C9_Scenario =>
        /\ hsv_data = Hsv(240, 500, 800)
        /\ calls[Len(calls)] = SetColourCall(<<64, 191, 191>>)

\* C9 amended: the scenario works from HSV {h:240, s:500, v:800} and sends
\* set_colour(102, 102, 204)
C9_SendsConvertedRgb ==
    C9_Scenario =>
        /\ hsv_data = Hsv(240, 500, 800)
        /\ calls[Len(calls)] = SetColourCall(<<102, 102, 204>>)

C9_Witness ==
    /\ C9_Scenario
    /\ out = "ok"
    /\ calls[Len(calls)] = SetColourCall(<<102, 102, 204>>)

\* C10: a set_colour call comes only after the mode check of the same
\* command, and either that check read DP 21 = "colour" and the command
\* issues no mode write, or set_value("21", "colour") was issued before it
C10_ColourModeBeforeSetColour ==
    \A i \in DOMAIN calls :
        IsSetColour(i) =>
            /\ i > 2
            /\ calls[1] = StatusCall
            /\ calls[2] = StatusCall
            /\ status2.dps
            /\ \/ /\ status2.dp21 = "colour"
                  /\ \A j \in DOMAIN calls : calls[j].fn # "set_value"
               \/ /\ status2.dp21 # "colour"
                  /\ \E j \in 3..(i - 1) : calls[j] = SetModeCall("colour")
            /\ \A j \in DOMAIN calls : IsSetColour(j) => j = i

C10_Witness ==
    /\ cmd = "sat"
    /\ status2.dp21 = "white"
    /\ Len(calls) = 4
    /\ calls[3] = SetModeCall("colour")
    /\ IsSetColour(4)
    /\ out = "ok"

====
